---- MODULE Spec2Model ----
(***************************************************************************)
(* State-machine model of resvg-py (src/lib.rs): the host-visible classes  *)
(* SVGOptions, Resvg and RenderedImage, and the calls Resvg::render makes  *)
(* into the wrapped engine (tiny_skia::Pixmap, usvg::Size, usvg::Tree,     *)
(* fontdb::Database, resvg::Tree).                                         *)
(*                                                                         *)
(* Lengths inside the engine are kept in hundredths of a pixel, so that a  *)
(* physical length of 0.01in is exactly `dpi` hundredths.  f32 values are  *)
(* sampled by small integers; NaN and infinities are not sampled.          *)
(***************************************************************************)
EXTENDS Integers, Sequences, FiniteSets, TLC

VARIABLES
    options,    \* Resvg.options : Option<SVGOptions>              (lib.rs:64)
    ctorArgs,   \* arguments the host gave when it built the Renderer
    sysfonts,   \* font files installed on the host system
    fontdb,     \* the font database built by the latest render   (lib.rs:101)
    args,       \* arguments and font environment of the latest render call
    result,     \* what the latest render call gave the host
    steps,      \* engine calls made by the latest render call, in order
    resolved,   \* engine Options the latest render call resolved (lib.rs:88)
    ret,        \* value returned by the latest RenderedImage accessor
    memo,       \* another call with its outcome, kept for comparison
    count       \* render calls made, images returned and font scans run

vars == <<options, ctorArgs, sysfonts, fontdb, args, result, steps, resolved,
          ret, memo, count>>

----------------------------------------------------------------------------
(* Bounds and sampled input values *)

MaxDim == 2
MaxCalls == 3

\* i32::MAX, the engine's limit on a row's byte size
I32Max == (2^30 - 1) * 2 + 1

\* defaults of SVGOptions::new's signature
DefaultDpi == 96
DefaultSize == 100
\* defaults of the engine's Options, as the field docs give them
EngineDpi == 96
EngineSize == 100
BytesPerPixel == 4
\* a dpi other than the default (72)
LowDpi == DefaultDpi - 24

None == [some |-> FALSE]
Some(v) == [some |-> TRUE, val |-> v]

DpiValues == {0, DefaultDpi}
WidthValues == {-1, 0, 1, DefaultSize}
HeightValues == {0, DefaultSize}
DirValues == {None, Some("dir")}

\* a width whose row does not fit the engine's i32 row size
TooWide == (I32Max \div BytesPerPixel) + 1
Widths == {0, 1, MaxDim, TooWide}
Heights == {0, MaxDim}

FontFiles == {"sans"}

\* SVG markup, by what the engine reads from it
Forms == {"svg", "unterminated", "nonsvgroot"}
Sizings == {"viewBox", "relative", "physical"}
Doc(form, sizing, text) == [form |-> form, sizing |-> sizing, text |-> text]
ValidDocs == {Doc("svg", s, t) : s \in Sizings, t \in BOOLEAN}
MalformedDocs ==
    {Doc(f, s, FALSE) : f \in Forms \ {"svg"}, s \in {"viewBox", "relative"}}
Docs == ValidDocs \cup MalformedDocs

----------------------------------------------------------------------------
(* SVGOptions and Resvg constructors *)

SVGOptionsNew(dpi, default_width, default_height, resources_dir) ==
    [dpi |-> dpi,
     default_width |-> default_width,
     default_height |-> default_height,
     resources_dir |-> resources_dir]

\* the defaults of SVGOptions::new's signature
SVGOptionsDefault == SVGOptionsNew(DefaultDpi, DefaultSize, DefaultSize, None)

ResvgNew(o) == o

----------------------------------------------------------------------------
(* The wrapped engine, as far as render's outcome depends on it *)

Hundredths(px) == px * 100
Min(a, b) == IF a < b THEN a ELSE b
Max(a, b) == IF a > b THEN a ELSE b

\* tiny_skia::Pixmap::new: None for a zero dimension or a row/buffer size
\* that is not representable; otherwise a zero-filled RGBA buffer.
TransparentPixel == [fill |-> 0, glyph |-> FALSE]

\* a buffer allocated with its dimensions exchanged
PixmapNewTransposed(width, height) ==
    IF width = 0 \/ height = 0 THEN None
    ELSE IF width > I32Max \div BytesPerPixel THEN None
    ELSE Some([width |-> height, height |-> width,
               data |-> [i \in 1..(width * height) |-> TransparentPixel]])

\* a buffer allocated without the check of the height
PixmapNewUncheckedHeight(width, height) ==
    IF width = 0 THEN None
    ELSE IF width > I32Max \div BytesPerPixel THEN None
    ELSE Some([width |-> width, height |-> height,
               data |-> [i \in 1..(width * height) |-> TransparentPixel]])

PixmapNew(width, height) ==
    IF width = 0 \/ height = 0 THEN None
    ELSE IF width > I32Max \div BytesPerPixel THEN None
    ELSE Some([width |-> width, height |-> height,
               data |-> [i \in 1..(width * height) |-> TransparentPixel]])

\* usvg::Size::from_wh: Some only for a positive width and height
\* a size that falls back to 100 x 100 when it is not positive
SizeFromWhOrDefault(w, h) ==
    IF w > 0 /\ h > 0 THEN Some([width |-> Hundredths(w), height |-> Hundredths(h)])
    ELSE Some([width |-> Hundredths(DefaultSize), height |-> Hundredths(DefaultSize)])

SizeFromWh(w, h) ==
    IF w > 0 /\ h > 0 THEN Some([width |-> Hundredths(w), height |-> Hundredths(h)])
    ELSE None

\* usvg::Options, the fields this layer sets (the rest are the engine's)
\* engine defaults with another dpi
OptionsDefaultLowDpi ==
    [dpi |-> LowDpi,
     default_size |-> SizeFromWh(EngineSize, EngineSize).val,
     resources_dir |-> None]

OptionsDefault ==
    [dpi |-> EngineDpi,
     default_size |-> SizeFromWh(EngineSize, EngineSize).val,
     resources_dir |-> None]

\* usvg::Tree::from_str: Err for markup that is not a well-formed document
\* with an <svg> root, and for a document whose size does not resolve to a
\* positive one; otherwise the tree with its resolved size: the viewBox
\* (1 x 1 user units), the default size for a relative size with no viewBox,
\* or 0.01in x 0.01in converted with the dpi.
Ok(v) == [ok |-> TRUE, val |-> v, err |-> "-"]
Err(e) == [ok |-> FALSE, val |-> None, err |-> e]

TreeFromStr(svg, opt) ==
    IF svg.form = "unterminated" THEN Err("ParsingFailed(UnexpectedEndOfStream)")
    ELSE IF svg.form = "nonsvgroot" THEN Err("ParsingFailed(NoRootNode)")
    ELSE IF svg.sizing = "physical" /\ opt.dpi <= 0 THEN Err("InvalidSize")
    ELSE Ok([size |-> CASE svg.sizing = "viewBox" ->
                              [width |-> Hundredths(1), height |-> Hundredths(1)]
                        [] svg.sizing = "relative" -> opt.default_size
                        [] svg.sizing = "physical" ->
                              [width |-> opt.dpi, height |-> opt.dpi],
             text |-> svg.text,
             glyphs |-> FALSE])

\* fontdb::Database::new and Database::load_system_fonts
\* a database kept from the previous call instead of a new one
FontdbKept == fontdb

FontdbNew == {}

\* a scan that adds nothing to the database
LoadSystemFontsNothing(db, installed) == db

LoadSystemFonts(db, installed) == db \cup installed

\* usvg TreeTextToPath::convert_text: text becomes glyph outlines when the
\* database can resolve a font, and is dropped otherwise
ConvertText(tree, db) ==
    [tree EXCEPT !.glyphs = tree.text /\ db # {}, !.text = FALSE]

\* resvg::Tree::from_usvg
FromUsvg(tree) == tree

\* resvg::Tree::render with the identity transform: the document's
\* background rectangle covers [0, size) from the origin, anti-aliased; a
\* glyph, if any, lands on the first pixel.  Row-major.
Coverage(extent, i) == Max(0, Min(Hundredths(1), extent - Hundredths(i)))

\* a rasterization that leaves the buffer as allocated
RenderTreeRenderNothing(rtree, pixmap) == pixmap

RenderTreeRender(rtree, pixmap) ==
    [pixmap EXCEPT !.data =
        [i \in 1..(pixmap.width * pixmap.height) |->
            LET x == (i - 1) % pixmap.width
                y == (i - 1) \div pixmap.width
            IN  [fill |-> (Coverage(rtree.size.width, x)
                           * Coverage(rtree.size.height, y)) \div Hundredths(1),
                 glyph |-> rtree.glyphs /\ i = 1]]]

\* Option::unwrap and Result::unwrap: the value, or a panic with std's message
\* (written here without its backquotes)
UnwrapOption(o) ==
    IF o.some THEN [panic |-> FALSE, val |-> o.val, msg |-> <<>>]
    ELSE [panic |-> TRUE, val |-> None,
          msg |-> <<"called Option::unwrap() on a None value">>]

\* an unwrap that swallows the error and goes on with an empty document
UnwrapResultOrEmpty(r) ==
    IF r.ok THEN [panic |-> FALSE, val |-> r.val, msg |-> <<>>]
    ELSE [panic |-> FALSE,
          val |-> [size |-> [width |-> 0, height |-> 0],
                   text |-> FALSE, glyphs |-> FALSE],
          msg |-> <<>>]

UnwrapResult(r) ==
    IF r.ok THEN [panic |-> FALSE, val |-> r.val, msg |-> <<>>]
    ELSE [panic |-> TRUE, val |-> None,
          msg |-> <<"called Result::unwrap() on an Err value", r.err>>]

----------------------------------------------------------------------------
(* Resvg::render *)

NoCall == [kind |-> "none", pixmap |-> None, msg |-> <<>>, at |-> "-"]

\* the RenderedImage handed to the host
Returned(pixmap) ==
    [kind |-> "RenderedImage", pixmap |-> Some(pixmap), msg |-> <<>>, at |-> "-"]

\* a panic inside a #[pymethods] body reaches the host as one exception type,
\* PanicException, carrying the panic message; `at` is the panicking call,
\* which the exception does not carry
Panicked(msg, at) ==
    [kind |-> "PanicException", pixmap |-> None, msg |-> msg, at |-> at]

\* lib.rs:88-97, the engine options of a call whose default size is valid
ResolveOptions(self_options, default_size) ==
    IF self_options.some
    THEN [dpi |-> self_options.val.dpi,
          default_size |-> default_size,
          resources_dir |-> self_options.val.resources_dir]
    ELSE OptionsDefault

\* lib.rs:99-114, once the buffer is allocated and the options are resolved
RenderParsed(opt, svg, pixmap, installed, done) ==
    LET parsed == UnwrapResult(TreeFromStr(svg, opt))
        s3     == done \o <<"Tree::from_str">>
    IN  IF parsed.panic
        THEN [result |-> Panicked(parsed.msg, "Tree::from_str"),
              steps |-> s3, fontdb |-> fontdb, opt |-> Some(opt)]
        ELSE
        LET db    == LoadSystemFonts(FontdbNew, installed)
            tree  == ConvertText(parsed.val, db)
            rtree == FromUsvg(tree)
            drawn == RenderTreeRender(rtree, pixmap)
        IN  [result |-> Returned(drawn),
             steps |-> s3 \o <<"Database::new", "load_system_fonts",
                               "convert_text", "from_usvg", "render">>,
             fontdb |-> db, opt |-> Some(opt)]

\* render with the default size resolved before the buffer is allocated
RenderSizeFirst(self_options, svg, width, height, installed) ==
    LET size == IF self_options.some
                THEN UnwrapOption(SizeFromWh(self_options.val.default_width,
                                             self_options.val.default_height))
                ELSE [panic |-> FALSE, val |-> None, msg |-> <<>>]
        s1   == IF self_options.some THEN <<"Size::from_wh">> ELSE <<>>
    IN  IF size.panic
        THEN [result |-> Panicked(size.msg, "Size::from_wh"),
              steps |-> s1, fontdb |-> fontdb, opt |-> None]
        ELSE LET alloc == UnwrapOption(PixmapNew(width, height))
                 s2    == s1 \o <<"Pixmap::new">>
             IN  IF alloc.panic
                 THEN [result |-> Panicked(alloc.msg, "Pixmap::new"),
                       steps |-> s2, fontdb |-> fontdb, opt |-> None]
                 ELSE RenderParsed(ResolveOptions(self_options, size.val), svg,
                                   alloc.val, installed,
                                   s2 \o <<"Options::default">>)

\* lib.rs:85-115
Render(self_options, svg, width, height, installed) ==
    LET alloc == UnwrapOption(PixmapNew(width, height))
        s1    == <<"Pixmap::new">>
    IN  IF alloc.panic
        THEN [result |-> Panicked(alloc.msg, "Pixmap::new"),
              steps |-> s1, fontdb |-> fontdb, opt |-> None]
        ELSE IF self_options.some
        THEN LET size == UnwrapOption(SizeFromWh(self_options.val.default_width,
                                                 self_options.val.default_height))
                 s2   == s1 \o <<"Size::from_wh">>
             IN  IF size.panic
                 THEN [result |-> Panicked(size.msg, "Size::from_wh"),
                       steps |-> s2, fontdb |-> fontdb, opt |-> None]
                 ELSE RenderParsed(ResolveOptions(self_options, size.val), svg,
                                   alloc.val, installed,
                                   s2 \o <<"Options::default">>)
        ELSE RenderParsed(ResolveOptions(self_options, None), svg, alloc.val,
                          installed, s1 \o <<"Options::default">>)

----------------------------------------------------------------------------
(* RenderedImage *)

ImageWidth(image) == image.pixmap.val.width

ImageHeight(image) == image.pixmap.val.height

\* Pixmap::encode_png: the PNG signature, the header's dimensions, the pixels
PngSignature == <<137, 80, 78, 71, 13, 10, 26, 10>>

EncodePng(pixmap) ==
    Ok(PngSignature \o <<pixmap.width, pixmap.height>> \o pixmap.data)

AsPng(image) ==
    LET encoded == EncodePng(image.pixmap.val)
    IN  IF encoded.ok THEN [raised |-> FALSE, bytes |-> encoded.val, msg |-> <<>>]
        ELSE [raised |-> TRUE, bytes |-> <<>>,
              msg |-> <<"Failed to encode PNG: ", encoded.err>>]

----------------------------------------------------------------------------
(* The state machine *)

NoArgs == [called |-> FALSE]
NoRet == [op |-> "none"]
NoMemo == [args |-> NoArgs, result |-> NoCall, resolved |-> None]
NoCount == [calls |-> 0, images |-> 0, scans |-> 0]

CallArgs(svg, width, height, installed) ==
    [called |-> TRUE, svg |-> svg, width |-> width, height |-> height,
     fonts |-> installed]

Occurrences(seq, x) == Cardinality({i \in 1..Len(seq) : seq[i] = x})

Init ==
    /\ options = ResvgNew(None)
    /\ ctorArgs = <<>>
    /\ sysfonts \in SUBSET FontFiles
    /\ fontdb = {}
    /\ args = NoArgs
    /\ result = NoCall
    /\ steps = <<>>
    /\ resolved = None
    /\ ret = NoRet
    /\ memo = NoMemo
    /\ count = NoCount

\* what every construction of a Renderer resets: nothing was called on it yet
Fresh ==
    /\ args' = NoArgs
    /\ result' = NoCall
    /\ steps' = <<>>
    /\ resolved' = None
    /\ ret' = NoRet
    /\ memo' = NoMemo
    /\ UNCHANGED <<sysfonts, fontdb, count>>

\* Resvg() or Resvg(None): a Renderer without options
ResvgNewNone ==
    /\ options' = ResvgNew(None)
    /\ ctorArgs' = <<>>
    /\ Fresh

\* Resvg(SVGOptions(dpi=d, default_width=w, default_height=h, resources_dir=r))
ResvgNewSome ==
    \E d \in DpiValues, w \in WidthValues, h \in HeightValues, r \in DirValues :
        /\ options' = ResvgNew(Some(SVGOptionsNew(d, w, h, r)))
        /\ ctorArgs' = <<d, w, h, r>>
        /\ Fresh

\* one call of render on the Renderer, with the host's current fonts
RenderStep(svg, width, height) ==
    LET out == Render(options, svg, width, height, sysfonts)
    IN  /\ args' = CallArgs(svg, width, height, sysfonts)
        /\ result' = out.result
        /\ steps' = out.steps
        /\ fontdb' = out.fontdb
        /\ resolved' = out.opt
        /\ ret' = NoRet
        /\ UNCHANGED <<options, ctorArgs, sysfonts>>

RenderCall ==
    \E svg \in Docs, width \in Widths, height \in Heights :
        /\ RenderStep(svg, width, height)
        /\ UNCHANGED <<memo, count>>

WidthCall ==
    /\ result.kind = "RenderedImage"
    /\ ret' = [op |-> "width", val |-> ImageWidth(result)]
    /\ UNCHANGED <<options, ctorArgs, sysfonts, fontdb, args, result, steps,
                   resolved, memo, count>>

HeightCall ==
    /\ result.kind = "RenderedImage"
    /\ ret' = [op |-> "height", val |-> ImageHeight(result)]
    /\ UNCHANGED <<options, ctorArgs, sysfonts, fontdb, args, result, steps,
                   resolved, memo, count>>

AsPngCall ==
    /\ result.kind = "RenderedImage"
    /\ ret' = [op |-> "as_png", val |-> AsPng(result)]
    /\ UNCHANGED <<options, ctorArgs, sysfonts, fontdb, args, result, steps,
                   resolved, memo, count>>

\* the host's fonts change between calls
FontEnvChange ==
    /\ \E f \in SUBSET FontFiles : f # sysfonts /\ sysfonts' = f
    /\ UNCHANGED <<options, ctorArgs, fontdb, args, result, steps, resolved,
                   ret, memo, count>>

Next ==
    \/ ResvgNewNone
    \/ ResvgNewSome
    \/ RenderCall
    \/ WidthCall
    \/ HeightCall
    \/ AsPngCall
    \/ FontEnvChange

Spec == Init /\ [][Next]_vars

----------------------------------------------------------------------------
(* Reuse of one Renderer: any call may be kept and compared with a later one *)

ProbeDocs ==
    {Doc("svg", "relative", TRUE), Doc("svg", "physical", FALSE),
     Doc("unterminated", "viewBox", FALSE)}
ProbeWidths == {0, MaxDim}
ProbeHeights == {MaxDim}

RenderProbe ==
    \E svg \in ProbeDocs, width \in ProbeWidths, height \in ProbeHeights :
        /\ RenderStep(svg, width, height)
        /\ UNCHANGED <<memo, count>>

Remember ==
    /\ args.called
    /\ memo' = [args |-> args, result |-> result, resolved |-> resolved]
    /\ UNCHANGED <<options, ctorArgs, sysfonts, fontdb, args, result, steps,
                   resolved, ret, count>>

NextReuse ==
    \/ ResvgNewNone
    \/ ResvgNewSome
    \/ RenderProbe
    \/ Remember
    \/ FontEnvChange

SpecReuse == Init /\ [][NextReuse]_vars

----------------------------------------------------------------------------
(* Resvg() beside Resvg(SVGOptions()): the same call made on both *)

RenderBoth ==
    \E svg \in Docs, width \in Widths, height \in Heights :
        /\ RenderStep(svg, width, height)
        /\ LET other == Render(ResvgNew(Some(SVGOptionsDefault)), svg, width,
                                height, sysfonts)
           IN  memo' = [args |-> CallArgs(svg, width, height, sysfonts),
                        result |-> other.result, resolved |-> other.opt]
        /\ UNCHANGED count

NextEquiv ==
    \/ RenderBoth
    \/ FontEnvChange
    \/ AsPngCall

SpecEquiv == Init /\ [][NextEquiv]_vars

----------------------------------------------------------------------------
(* Counting the calls, the images returned and the font scans *)

RenderCounted ==
    /\ count.calls < MaxCalls
    /\ \E svg \in ProbeDocs, width \in ProbeWidths, height \in ProbeHeights :
           /\ RenderStep(svg, width, height)
           /\ count' =
                 [calls |-> count.calls + 1,
                  images |-> count.images
                             + (IF result'.kind = "RenderedImage" THEN 1 ELSE 0),
                  scans |-> count.scans + Occurrences(steps', "load_system_fonts")]
           /\ UNCHANGED memo

NextCount ==
    \/ ResvgNewNone
    \/ ResvgNewSome
    \/ RenderCounted
    \/ FontEnvChange

SpecCount == Init /\ [][NextCount]_vars

----------------------------------------------------------------------------
(* Conditions on the latest call, stated on its inputs *)

Called == args.called

ZeroDim == args.width = 0 \/ args.height = 0

\* both dimensions positive and a row of 4-byte pixels within i32
Allocatable ==
    /\ args.width > 0
    /\ args.height > 0
    /\ args.width <= I32Max \div BytesPerPixel

BadDefaultSize ==
    /\ options.some
    /\ (options.val.default_width <= 0 \/ options.val.default_height <= 0)

Malformed == args.svg.form # "svg"

\* a well-formed document whose physical size is nothing at the options' dpi
Sizeless ==
    /\ args.svg.sizing = "physical"
    /\ options.some
    /\ options.val.dpi <= 0

NoImage == result.kind = "PanicException" /\ ~result.pixmap.some

FullSteps ==
    <<"Pixmap::new">>
    \o (IF options.some THEN <<"Size::from_wh">> ELSE <<>>)
    \o <<"Options::default", "Tree::from_str", "Database::new",
         "load_system_fonts", "convert_text", "from_usvg", "render">>

----------------------------------------------------------------------------
(* C1 *)

----------------------------------------------------------------------------
(* C2 *)

\* C2: with width = 0 or height = 0 render fails at the buffer allocation and
\* returns no image, for every markup and every options.
C2_ZeroDimensionFails ==
    (Called /\ ZeroDim)
        => /\ NoImage
           /\ result.at = "Pixmap::new"
           /\ result.msg # <<>>

C2_Witness ==
    /\ Called /\ args.width = 1 /\ args.height = 0
    /\ ~Malformed /\ ~options.some
    /\ NoImage

----------------------------------------------------------------------------
(* C4 *)

----------------------------------------------------------------------------
(* C5 *)

\* C5 as claimed: a non-positive default size is reported as the
\* configuration error of each render call on the Renderer.
C5_EveryCallConfigurationError ==
    (Called /\ BadDefaultSize) => NoImage /\ result.at = "Size::from_wh"

\* C5 amended: construction stores the four fields as given and reports
\* nothing; each render call on a Renderer with a non-positive default size
\* fails: with the configuration error when the buffer could be allocated,
\* with the allocation error otherwise; no image is returned and the engine
\* never resolves options with a default size in its place.
C5_BadDefaultSizeAtRender ==
    /\ options.some
          => ctorArgs = <<options.val.dpi, options.val.default_width,
                          options.val.default_height, options.val.resources_dir>>
    /\ ~Called => result = NoCall
    /\ (Called /\ BadDefaultSize)
          => /\ NoImage
             /\ ~resolved.some
             /\ Allocatable => result.at = "Size::from_wh"
             /\ ~Allocatable => result.at = "Pixmap::new"

C5_Witness ==
    /\ Called /\ Allocatable /\ ~Malformed
    /\ options.some /\ options.val.default_width = 0
    /\ options.val.default_height = DefaultSize
    /\ args.svg.sizing = "relative"
    /\ result.at = "Size::from_wh"

----------------------------------------------------------------------------
(* C7 *)

\* C7: a call either runs every step and returns the rasterized image, or
\* fails and returns no image; a failing step is never passed over.
C7_AllOrNothing ==
    Called =>
        IF ~Allocatable \/ BadDefaultSize \/ Malformed \/ Sizeless
        THEN /\ NoImage
             /\ Len(steps) < Len(FullSteps)
             /\ steps[Len(steps)] = result.at
        ELSE /\ result.kind = "RenderedImage"
             /\ result.pixmap.some
             /\ steps = FullSteps
             /\ result.msg = <<>>
             /\ result.pixmap.val.data[1].fill > 0

C7_Witness ==
    /\ Called /\ result.kind = "RenderedImage" /\ steps = FullSteps
    /\ options.some /\ args.svg.sizing = "relative"
    /\ options.val.default_width = DefaultSize
    /\ args.width = MaxDim

----------------------------------------------------------------------------
(* C10 *)

\* C10: the failure conditions are checked in the order allocation, default
\* size (only with options), parse; the first that fails is the one reported
\* and nothing after it runs.
C10_FirstFailureWins ==
    Called =>
        /\ ~Allocatable
              => result.at = "Pixmap::new" /\ steps = <<"Pixmap::new">>
        /\ (Allocatable /\ BadDefaultSize)
              => /\ result.at = "Size::from_wh"
                 /\ steps = <<"Pixmap::new", "Size::from_wh">>
        /\ (Allocatable /\ ~BadDefaultSize /\ Malformed)
              => /\ result.at = "Tree::from_str"
                 /\ steps[Len(steps)] = "Tree::from_str"
                 /\ steps = SubSeq(FullSteps, 1, Len(steps))
        /\ ~options.some => Occurrences(steps, "Size::from_wh") = 0
        /\ NoImage => /\ Occurrences(steps, "load_system_fonts") = 0
                       /\ Occurrences(steps, "render") = 0

C10_Witness ==
    /\ Called /\ Allocatable /\ BadDefaultSize /\ Malformed
    /\ args.svg.sizing = "viewBox"
    /\ result.at = "Size::from_wh"

----------------------------------------------------------------------------
(* C3 *)

\* C3: each failure of render reaches the host as an exception with a
\* message, and failures of different causes are told apart by the exception
\* the host receives (its type and message).
C3_DistinctErrors ==
    /\ result.kind = "PanicException" => result.msg # <<>>
    /\ (/\ memo.result.kind = "PanicException"
        /\ result.kind = "PanicException"
        /\ memo.result.at # result.at)
          => <<memo.result.kind, memo.result.msg>> # <<result.kind, result.msg>>

----------------------------------------------------------------------------
(* C6 *)

\* C6: render on Resvg() and on Resvg(SVGOptions()) resolves the same engine
\* options and has the same outcome: the same failure, or images with the
\* same dimensions, pixels and PNG bytes.
C6_DefaultsEquivalent ==
    Called =>
        /\ memo.args = args
        /\ memo.resolved = resolved
        /\ memo.result = result
        /\ result.kind = "RenderedImage" => AsPng(memo.result) = AsPng(result)

C6_Witness ==
    /\ Called /\ ~options.some
    /\ args.svg.sizing = "physical" /\ args.width = MaxDim
    /\ result.kind = "RenderedImage" /\ memo.result.kind = "RenderedImage"
    /\ resolved.some /\ resolved.val.dpi = DefaultDpi
    /\ result.pixmap.val.data[1].fill \in 1..(Hundredths(1) - 1)
    /\ ret.op = "as_png"

----------------------------------------------------------------------------
(* C8 *)

SameCallAsKept == memo.args.called /\ Called /\ memo.args = args

\* C8: render leaves the Renderer's options as they are, and whatever calls
\* were made in between, two calls on the same Renderer with the same markup,
\* width, height and installed fonts have the same outcome, byte for byte in
\* as_png().
C8_Stateless ==
    /\ [](SameCallAsKept
            => /\ memo.result.kind = result.kind
               /\ memo.result.msg = result.msg
               /\ result.kind = "RenderedImage"
                     => AsPng(memo.result).bytes = AsPng(result).bytes)
    /\ [][(args'.called /\ <<args, result, steps, fontdb>>' # <<args, result, steps, fontdb>>)
              => (options' = options /\ ctorArgs' = ctorArgs)]_vars

C8_Witness ==
    /\ SameCallAsKept
    /\ args.svg.text /\ args.fonts = {} /\ fontdb = {} /\ sysfonts # {}
    /\ options.some
    /\ result.kind = "RenderedImage"
    /\ AsPng(memo.result).bytes = AsPng(result).bytes

----------------------------------------------------------------------------
(* C9 *)

Position(seq, x) == CHOOSE i \in 1..Len(seq) : seq[i] = x

\* C9 as claimed: every call of render scans the system fonts, so the calls
\* made and the scans run are equally many.
C9_ScanEveryCall ==
    /\ count.scans = count.calls
    /\ Called => Occurrences(steps, "load_system_fonts") = 1

\* C9 amended: a call scans the system fonts exactly when its markup was
\* parsed, that is when it returns an image: once, into a database created in
\* that call, after Tree::from_str and before convert_text and render; the
\* database holds the fonts installed at that call and nothing older; a call
\* that fails scans nothing. The scans run are as many as the images returned.
C9_ScanPerParsedCall ==
    /\ count.scans = count.images
    /\ count.images <= count.calls
    /\ (Called /\ result.kind = "RenderedImage")
          => /\ Occurrences(steps, "Database::new") = 1
             /\ Occurrences(steps, "load_system_fonts") = 1
             /\ Position(steps, "Tree::from_str") < Position(steps, "Database::new")
             /\ Position(steps, "load_system_fonts")
                   = Position(steps, "Database::new") + 1
             /\ Position(steps, "load_system_fonts")
                   < Position(steps, "convert_text")
             /\ Position(steps, "convert_text") < Position(steps, "render")
             /\ fontdb = args.fonts
    /\ (Called /\ result.kind = "PanicException")
          => /\ Occurrences(steps, "Database::new") = 0
             /\ Occurrences(steps, "load_system_fonts") = 0

C9_Witness ==
    /\ count.calls = MaxCalls /\ count.images = 2 /\ count.scans = 2
    /\ result.kind = "RenderedImage" /\ args.fonts = {} /\ fontdb = {}

====
